---- MODULE Spec2Model ----
(***************************************************************************)
(* The four freqtrade strategies of user_data/strategies as one state      *)
(* machine: the framework hands a candle table to populate_indicators,     *)
(* populate_entry_trend and populate_exit_trend, and then invokes the      *)
(* runtime callbacks on the analyzed table.                                *)
(*                                                                         *)
(* Numbers.  A float is either an integer in a fixed unit, with NaN a      *)
(* reserved value, or an exact quotient [n, d] (d >= 0; 0/0 is NaN, n/0    *)
(* an infinity).  Prices, averages, bands, MACD and ATR are in ticks of    *)
(* 0.0001; RSI, ADX and the stochastics are in points; thresholds on       *)
(* quotients (volume_ratio, bb_width, bb_percent), profits and stop-loss   *)
(* fractions are in 1/1000.                                                *)
(*                                                                         *)
(* Indicator library.  talib is not part of the repository: a candle row   *)
(* carries, beside close and volume, the values the library computes at    *)
(* that row (the ta_ fields), and the library call yields NaN on the rows  *)
(* before the call's look-back is filled.                                  *)
(***************************************************************************)
EXTENDS Integers, Sequences, FiniteSets, TLC

VARIABLES strategy, params, candles, dataframe, stage, call

vars == <<strategy, params, candles, dataframe, stage, call>>

(***************************************************************************)
(* Floats                                                                  *)
(***************************************************************************)
NaN == -(2^30)

isnan(x) == x = NaN

\* a comparison that lets an undefined operand pass
Gt_unordered(a, b) == a = NaN \/ b = NaN \/ a > b

Gt(a, b) == a # NaN /\ b # NaN /\ a > b
Lt(a, b) == a # NaN /\ b # NaN /\ a < b
Ge(a, b) == a # NaN /\ b # NaN /\ a >= b
Le(a, b) == a # NaN /\ b # NaN /\ a <= b

Sub(a, b) == IF a = NaN \/ b = NaN THEN NaN ELSE a - b
Add(a, b) == IF a = NaN \/ b = NaN THEN NaN ELSE a + b
Mul(a, k) == IF a = NaN THEN NaN ELSE a * k

\* a / b, exact.  NaN operands give 0/0.
Quot(a, b) ==
    IF a = NaN \/ b = NaN THEN [n |-> 0, d |-> 0]
    ELSE IF b < 0 THEN [n |-> -a, d |-> -b]
    ELSE [n |-> a, d |-> b]

QNaN(q) == q.n = 0 /\ q.d = 0

\* q > t/1000 and q < t/1000
QGt(q, t) == IF q.d = 0 THEN q.n > 0 ELSE q.n * 1000 > t * q.d
QLt(q, t) == IF q.d = 0 THEN q.n < 0 ELSE q.n * 1000 < t * q.d

\* x > y for two quotients
QGtQ(x, y) ==
    /\ ~QNaN(x) /\ ~QNaN(y)
    /\ IF x.d = 0 /\ y.d = 0 THEN x.n > 0 /\ y.n < 0
       ELSE x.n * y.d > y.n * x.d

\* the smaller of the two, in place of the larger
min(a, b) == IF QGtQ(b, a) THEN a ELSE b

\* Python's max(a, b): b only when b > a
max(a, b) == IF QGtQ(b, a) THEN b ELSE a

(***************************************************************************)
(* Tables                                                                  *)
(***************************************************************************)
Rows(df) == 1 .. Len(df)

\* the candle history: n rows repeating the rows of pat; row i of it
Candle(cs, i) == cs.pat[((i - 1) % Len(cs.pat)) + 1]

\* a library output at row i (1-based; pandas index i-1)
ta(lookback, v, i) == IF i - 1 < lookback THEN NaN ELSE v

\* Series.shift(k) at row i
shift(df, col, k, i) == IF i - k >= 1 THEN df[i - k][col] ELSE NaN

\* a shifted boolean column inside | : the shifted-in NaN counts as False
shiftb(df, col, k, i) == IF i - k >= 1 THEN df[i - k][col] ELSE FALSE

\* a table given row by row, as a sequence
frame(f) == f @@ << >>

\* df[cols] = values: the new columns replace or extend each row
assign(df, new) == frame([i \in Rows(df) |-> new[i] @@ df[i]])

\* the two reducers, each in place of the other
every(conds) == \A k \in DOMAIN conds : conds[k]
some(conds) == \E k \in DOMAIN conds : conds[k]

logical_or_reduce(conds) == \E k \in DOMAIN conds : conds[k]

logical_and_reduce(conds) == \A k \in DOMAIN conds : conds[k]

\* an assignment that also keeps a set flag up on the following row
loc_set_carry(df, mask, col) ==
    frame([i \in Rows(df) |->
            IF mask[i] \/ (i > 1 /\ col \in DOMAIN df[i - 1] /\ df[i - 1][col] = 1)
            THEN (col :> 1) @@ df[i]
            ELSE IF col \in DOMAIN df[i] THEN df[i]
            ELSE (col :> NaN) @@ df[i]])

\* an assignment that also clears the opposite signal on the rows it flags
loc_set_exclusive(df, mask, col) ==
    LET other == IF col = "enter_long" THEN "exit_long" ELSE "enter_long"
    IN  frame([i \in Rows(df) |->
            IF mask[i]
            THEN IF other \in DOMAIN df[i] THEN (col :> 1) @@ (other :> 0) @@ df[i]
                 ELSE (col :> 1) @@ df[i]
            ELSE IF col \in DOMAIN df[i] THEN df[i]
            ELSE (col :> NaN) @@ df[i]])

\* dataframe.loc[mask, col] = 1
loc_set(df, mask, col) ==
    frame([i \in Rows(df) |->
            IF mask[i] THEN (col :> 1) @@ df[i]
            ELSE IF col \in DOMAIN df[i] THEN df[i]
            ELSE (col :> NaN) @@ df[i]])

\* look-backs of the library calls
LookbackEMA(period) == period - 1
LookbackSMA(period) == period - 1
LookbackBBANDS(period) == period - 1
LookbackRSI(period) == period
LookbackATR(period) == period
LookbackADX(period) == 2 * period - 1
\* the look-back of the slow average alone, without the signal line's
LookbackMACD_unsmoothed(fast, slow, signal) == (IF slow > fast THEN slow ELSE fast) - 1

LookbackMACD(fast, slow, signal) ==
    (IF slow > fast THEN slow ELSE fast) - 1 + (signal - 1)
LookbackSTOCH == (5 - 1) + (3 - 1) + (3 - 1)

(***************************************************************************)
(* EMAScalpingStrategy                                                     *)
(***************************************************************************)
EMA_stoploss == -20
EMA_startup_candle_count == 30

EMA_default ==
    [ema_fast |-> 5, ema_medium |-> 10, ema_slow |-> 21, rsi_period |-> 14,
     rsi_buy_min |-> 30, rsi_buy_max |-> 70, rsi_sell_threshold |-> 75,
     volume_factor |-> 1500]
EMA_low ==
    [ema_fast |-> 3, ema_medium |-> 8, ema_slow |-> 18, rsi_period |-> 10,
     rsi_buy_min |-> 25, rsi_buy_max |-> 65, rsi_sell_threshold |-> 70,
     volume_factor |-> 1200]
EMA_high ==
    [ema_fast |-> 8, ema_medium |-> 15, ema_slow |-> 25, rsi_period |-> 16,
     rsi_buy_min |-> 35, rsi_buy_max |-> 75, rsi_sell_threshold |-> 80,
     volume_factor |-> 2000]
\* the ranges of rsi_buy_max (65..75) and rsi_sell_threshold (70..80) overlap
EMA_overlap == [EMA_default EXCEPT !.rsi_buy_max = 75, !.rsi_sell_threshold = 70]
\* the IntParameter ranges of the three periods, ends included
EMA_period_ranges == [ema_fast |-> 3 .. 8, ema_medium |-> 8 .. 15, ema_slow |-> 18 .. 25]
\* the upper end of ema_fast with the lower end of ema_medium
EMA_meeting == [EMA_default EXCEPT !.ema_fast = 8, !.ema_medium = 8]

\* a level-triggered flag, downwards
EMA_ema_cross_down_level(df, i) == Lt(df[i]["ema_fast"], df[i]["ema_medium"])

\* a level-triggered flag: the relation of the current row alone
EMA_ema_cross_up_level(df, i) == Gt(df[i]["ema_fast"], df[i]["ema_medium"])

EMA_ema_cross_up(df, i) ==
    /\ Gt(df[i]["ema_fast"], df[i]["ema_medium"])
    /\ Le(shift(df, "ema_fast", 1, i), shift(df, "ema_medium", 1, i))

EMA_ema_cross_down(df, i) ==
    /\ Lt(df[i]["ema_fast"], df[i]["ema_medium"])
    /\ Ge(shift(df, "ema_fast", 1, i), shift(df, "ema_medium", 1, i))

EMA_populate_indicators(df, cs, p) ==
    LET d1 == assign(df, [i \in Rows(df) |->
                [ema_fast   |-> ta(LookbackEMA(p.ema_fast), Candle(cs, i).ta_ema_fast, i),
                 ema_medium |-> ta(LookbackEMA(p.ema_medium), Candle(cs, i).ta_ema_medium, i),
                 ema_slow   |-> ta(LookbackEMA(p.ema_slow), Candle(cs, i).ta_ema_slow, i)]])
        d2 == assign(d1, [i \in Rows(df) |->
                [ema_cross_up   |-> EMA_ema_cross_up(d1, i),
                 ema_cross_down |-> EMA_ema_cross_down(d1, i),
                 uptrend   |-> Gt(d1[i]["ema_medium"], d1[i]["ema_slow"]),
                 downtrend |-> Lt(d1[i]["ema_medium"], d1[i]["ema_slow"]),
                 rsi |-> ta(LookbackRSI(p.rsi_period), Candle(cs, i).ta_rsi, i),
                 volume_sma |-> ta(LookbackSMA(10), Candle(cs, i).ta_volume_sma, i)]])
        d3 == assign(d2, [i \in Rows(df) |->
                [volume_ratio |-> Quot(d2[i]["volume"], d2[i]["volume_sma"]),
                 macd       |-> ta(LookbackMACD(12, 26, 9), Candle(cs, i).ta_macd, i),
                 macdsignal |-> ta(LookbackMACD(12, 26, 9), Candle(cs, i).ta_macdsignal, i),
                 macdhist   |-> ta(LookbackMACD(12, 26, 9), Candle(cs, i).ta_macdhist, i),
                 bb_lowerband |-> ta(LookbackBBANDS(20), Candle(cs, i).ta_bb_lower, i),
                 bb_upperband |-> ta(LookbackBBANDS(20), Candle(cs, i).ta_bb_upper, i),
                 bb_width |-> Quot(Sub(ta(LookbackBBANDS(20), Candle(cs, i).ta_bb_upper, i),
                                       ta(LookbackBBANDS(20), Candle(cs, i).ta_bb_lower, i)),
                                   d2[i]["close"]),
                 atr |-> ta(LookbackATR(14), Candle(cs, i).ta_atr, i)]])
    IN  d3

\* the list `conditions` of populate_entry_trend on row i
EMA_entry_conditions(df, p, i) ==
    << df[i]["ema_cross_up"],
       df[i]["uptrend"],
       Ge(df[i]["rsi"], p.rsi_buy_min),
       Le(df[i]["rsi"], p.rsi_buy_max),
       QGt(df[i]["volume_ratio"], p.volume_factor),
       Gt(df[i]["macdhist"], 0),
       QGt(df[i]["bb_width"], 15),
       Gt(df[i]["close"], df[i]["ema_slow"]) >>

EMA_populate_entry_trend(df, p) ==
    loc_set(df, [i \in Rows(df) |-> logical_and_reduce(EMA_entry_conditions(df, p, i))],
            "enter_long")

\* the list `conditions` of populate_exit_trend on row i
EMA_exit_conditions(df, p, i) == << df[i]["ema_cross_down"] >>

\* the alternative exits with the RSI exit taken from the lower entry bound
EMA_alt_conditions_from_buy_min(df, p, i) ==
    << Gt(df[i]["rsi"], p.rsi_buy_min),
       Lt(df[i]["macd"], df[i]["macdsignal"])
           /\ Lt(df[i]["macdhist"], shift(df, "macdhist", 1, i)),
       df[i]["downtrend"] >>

\* the list `alt_conditions` of populate_exit_trend on row i
EMA_alt_conditions(df, p, i) ==
    << Gt(df[i]["rsi"], p.rsi_sell_threshold),
       Lt(df[i]["macd"], df[i]["macdsignal"])
           /\ Lt(df[i]["macdhist"], shift(df, "macdhist", 1, i)),
       df[i]["downtrend"] >>

EMA_populate_exit_trend(df, p) ==
    LET main_exit == [i \in Rows(df) |-> logical_and_reduce(EMA_exit_conditions(df, p, i))]
        alt_exit  == [i \in Rows(df) |-> logical_or_reduce(EMA_alt_conditions(df, p, i))]
    IN  loc_set(df, [i \in Rows(df) |-> main_exit[i] \/ alt_exit[i]], "exit_long")


\* atr_multiplier * atr / current_rate, the multiplier in tenths
atr_stop(mult10, atr, current_rate) == Quot(Mul(atr, mult10), 10 * current_rate)

neg(q) == [n |-> -q.n, d |-> q.d]

EMA_custom_stoploss(df, current_rate) ==
    LET last_candle == df[Len(df)]
    IN  max(neg(atr_stop(15, last_candle["atr"], current_rate)), Quot(EMA_stoploss, 1000))

\* held: the seconds between trade.open_date_utc and current_time; aware: whether
\* current_time carries a timezone.  open_date_utc.replace(tzinfo=None) is naive,
\* and subtracting a naive datetime from an aware one raises TypeError.
EMA_custom_exit(df, current_profit, held, aware) ==
    LET last_candle == df[Len(df)]
    IN  IF current_profit > 20 /\ aware THEN "TypeError"
        ELSE IF current_profit > 20 /\ held < 120 THEN "quick_profit_scalp"
        ELSE IF current_profit > 5 /\ Gt(last_candle["rsi"], 80) THEN "rsi_extreme_exit"
        ELSE "None"

\* a multiplier capped by the exchange's maximum
capped_leverage(proposed_leverage, max_leverage) ==
    IF max_leverage < 10 THEN max_leverage ELSE 10

EMA_leverage(proposed_leverage, max_leverage) == 10

\* candle rows: the entry row G, the row before a crossing Q, the crossing down D,
\* G with one entry predicate failing, and a flat market Z
EMA_G ==
    [close |-> 1050, volume |-> 300, ta_ema_fast |-> 1040, ta_ema_medium |-> 1020,
     ta_ema_slow |-> 1000, ta_rsi |-> 50, ta_volume_sma |-> 100, ta_macd |-> 3,
     ta_macdsignal |-> 1, ta_macdhist |-> 2, ta_bb_lower |-> 1000,
     ta_bb_upper |-> 1100, ta_atr |-> 20]
EMA_Q == [EMA_G EXCEPT !.ta_ema_fast = 1020, !.ta_atr = 10]
EMA_D == [EMA_G EXCEPT !.ta_ema_fast = 1010, !.ta_atr = 10]
EMA_GH == [EMA_G EXCEPT !.ta_rsi = 85]
EMA_GT == [EMA_G EXCEPT !.ta_rsi = 72]
EMA_GL == [EMA_G EXCEPT !.ta_rsi = 20]
EMA_GV == [EMA_G EXCEPT !.volume = 100]
EMA_GM == [EMA_G EXCEPT !.ta_macd = 1, !.ta_macdsignal = 2, !.ta_macdhist = -1]
EMA_GB == [EMA_G EXCEPT !.ta_bb_upper = 1010]
EMA_GC == [EMA_G EXCEPT !.close = 990]
EMA_GU == [EMA_G EXCEPT !.ta_ema_medium = 990]
EMA_Z ==
    [close |-> 1000, volume |-> 0, ta_ema_fast |-> 1000, ta_ema_medium |-> 1000,
     ta_ema_slow |-> 1000, ta_rsi |-> 50, ta_volume_sma |-> 0, ta_macd |-> 0,
     ta_macdsignal |-> 0, ta_macdhist |-> 0, ta_bb_lower |-> 1000,
     ta_bb_upper |-> 1000, ta_atr |-> 0]

EMA_rows == {EMA_G, EMA_Q, EMA_D, EMA_GH, EMA_GL, EMA_GV, EMA_GM, EMA_GB, EMA_GC,
             EMA_GU, EMA_Z}

(***************************************************************************)
(* BollingerSqueezeScalpStrategy                                           *)
(***************************************************************************)
BB_stoploss == -25
BB_startup_candle_count == 40

BB_default ==
    [bb_period |-> 20, bb_std |-> 2000, rsi_period |-> 14, rsi_buy_threshold |-> 50,
     rsi_sell_threshold |-> 50, volume_spike |-> 2000, adx_period |-> 14,
     adx_threshold |-> 20, squeeze_threshold |-> 20]
BB_low ==
    [bb_period |-> 15, bb_std |-> 1800, rsi_period |-> 10, rsi_buy_threshold |-> 45,
     rsi_sell_threshold |-> 45, volume_spike |-> 1800, adx_period |-> 12,
     adx_threshold |-> 18, squeeze_threshold |-> 10]
BB_high ==
    [bb_period |-> 25, bb_std |-> 2200, rsi_period |-> 16, rsi_buy_threshold |-> 55,
     rsi_sell_threshold |-> 55, volume_spike |-> 3000, adx_period |-> 18,
     adx_threshold |-> 25, squeeze_threshold |-> 30]

\* Series.shift(k) of a quotient column
shiftq(df, col, k, i) == IF i - k >= 1 THEN df[i - k][col] ELSE Quot(NaN, NaN)

BB_bb_break_up(df, i) ==
    /\ Gt(df[i]["close"], df[i]["bb_upperband"])
    /\ Le(shift(df, "close", 1, i), shift(df, "bb_upperband", 1, i))

BB_bb_break_down(df, i) ==
    /\ Lt(df[i]["close"], df[i]["bb_lowerband"])
    /\ Ge(shift(df, "close", 1, i), shift(df, "bb_lowerband", 1, i))

BB_populate_indicators(df, cs, p) ==
    LET d1 == assign(df, [i \in Rows(df) |->
                [bb_lowerband  |-> ta(LookbackBBANDS(p.bb_period), Candle(cs, i).ta_bb_lower, i),
                 bb_middleband |-> ta(LookbackBBANDS(p.bb_period), Candle(cs, i).ta_bb_middle, i),
                 bb_upperband  |-> ta(LookbackBBANDS(p.bb_period), Candle(cs, i).ta_bb_upper, i)]])
        d2 == assign(d1, [i \in Rows(df) |->
                [bb_width |-> Quot(Sub(d1[i]["bb_upperband"], d1[i]["bb_lowerband"]),
                                   d1[i]["bb_middleband"]),
                 bb_percent |-> Quot(Sub(d1[i]["close"], d1[i]["bb_lowerband"]),
                                     Sub(d1[i]["bb_upperband"], d1[i]["bb_lowerband"])),
                 bb_break_up   |-> BB_bb_break_up(d1, i),
                 bb_break_down |-> BB_bb_break_down(d1, i),
                 rsi |-> ta(LookbackRSI(p.rsi_period), Candle(cs, i).ta_rsi, i),
                 volume_sma |-> ta(LookbackSMA(20), Candle(cs, i).ta_volume_sma, i),
                 adx |-> ta(LookbackADX(p.adx_period), Candle(cs, i).ta_adx, i),
                 macd       |-> ta(LookbackMACD(12, 26, 9), Candle(cs, i).ta_macd, i),
                 macdsignal |-> ta(LookbackMACD(12, 26, 9), Candle(cs, i).ta_macdsignal, i),
                 macdhist   |-> ta(LookbackMACD(12, 26, 9), Candle(cs, i).ta_macdhist, i),
                 ema_fast |-> ta(LookbackEMA(9), Candle(cs, i).ta_ema_fast, i),
                 kc_upper |-> Add(d1[i]["bb_middleband"],
                                  Mul(ta(LookbackATR(20), Candle(cs, i).ta_atr20, i), 2)),
                 kc_lower |-> Sub(d1[i]["bb_middleband"],
                                  Mul(ta(LookbackATR(20), Candle(cs, i).ta_atr20, i), 2)),
                 atr |-> ta(LookbackATR(14), Candle(cs, i).ta_atr, i)]])
        d3 == assign(d2, [i \in Rows(df) |->
                [bb_squeeze |-> QLt(d2[i]["bb_width"], p.squeeze_threshold),
                 volume_ratio |-> Quot(d2[i]["volume"], d2[i]["volume_sma"]),
                 true_squeeze |-> /\ Lt(d2[i]["bb_upperband"], d2[i]["kc_upper"])
                                  /\ Gt(d2[i]["bb_lowerband"], d2[i]["kc_lower"])]])
    IN  d3

BB_recent_squeeze(df, i) ==
    \/ df[i]["bb_squeeze"]
    \/ shiftb(df, "bb_squeeze", 1, i)
    \/ shiftb(df, "bb_squeeze", 2, i)
    \/ df[i]["true_squeeze"]
    \/ shiftb(df, "true_squeeze", 1, i)

\* the entry list with room above the upper band: bb_percent < 2.0
BB_entry_conditions_above_band(df, p, i) ==
    << df[i]["recent_squeeze"],
       df[i]["bb_break_up"],
       Gt(df[i]["rsi"], p.rsi_buy_threshold),
       QGt(df[i]["volume_ratio"], p.volume_spike),
       Gt(df[i]["adx"], p.adx_threshold),
       Gt(df[i]["macdhist"], 0),
       Gt(df[i]["close"], df[i]["ema_fast"]),
       QLt(df[i]["bb_percent"], 2000) >>

\* the list `conditions` of populate_entry_trend on row i (df holds recent_squeeze)
BB_entry_conditions(df, p, i) ==
    << df[i]["recent_squeeze"],
       df[i]["bb_break_up"],
       Gt(df[i]["rsi"], p.rsi_buy_threshold),
       QGt(df[i]["volume_ratio"], p.volume_spike),
       Gt(df[i]["adx"], p.adx_threshold),
       Gt(df[i]["macdhist"], 0),
       Gt(df[i]["close"], df[i]["ema_fast"]),
       QLt(df[i]["bb_percent"], 950) >>

BB_populate_entry_trend(df, p) ==
    LET d1 == assign(df, [i \in Rows(df) |-> [recent_squeeze |-> BB_recent_squeeze(df, i)]])
    IN  loc_set(d1, [i \in Rows(df) |-> logical_and_reduce(BB_entry_conditions(d1, p, i))],
                "enter_long")

BB_exit_conditions(df, p, i) == << df[i]["bb_break_down"] >>

BB_alt_conditions(df, p, i) ==
    << Lt(df[i]["rsi"], p.rsi_sell_threshold),
       QGt(df[i]["bb_percent"], 800) /\ Lt(df[i]["close"], df[i]["bb_upperband"]),
       Lt(df[i]["macd"], df[i]["macdsignal"]) /\ Lt(df[i]["macdhist"], 0),
       QLt(df[i]["volume_ratio"], 1000) /\ QGt(shiftq(df, "volume_ratio", 1, i), 2000),
       Lt(df[i]["close"], df[i]["ema_fast"]) >>

BB_populate_exit_trend(df, p) ==
    LET main_exit == [i \in Rows(df) |-> logical_and_reduce(BB_exit_conditions(df, p, i))]
        alt_exit  == [i \in Rows(df) |-> logical_and_reduce(BB_alt_conditions(df, p, i))]
    IN  loc_set(df, [i \in Rows(df) |-> main_exit[i] \/ alt_exit[i]], "exit_long")

\* the stop taken from the row before the final one, when there is one
BB_custom_stoploss_previous_row(df, current_rate) ==
    LET last_closed == IF Len(df) > 1 THEN df[Len(df) - 1] ELSE df[Len(df)]
    IN  max(neg(atr_stop(20, last_closed["atr"], current_rate)), Quot(BB_stoploss, 1000))

BB_custom_stoploss(df, current_rate) ==
    LET last_candle == df[Len(df)]
    IN  max(neg(atr_stop(20, last_candle["atr"], current_rate)), Quot(BB_stoploss, 1000))

\* the squeeze exit tried before the high-profit exit
BB_custom_exit_squeeze_first(df, current_profit, held) ==
    LET last_candle == df[Len(df)]
    IN  IF current_profit > 10 /\ last_candle["bb_squeeze"] THEN "squeeze_return_exit"
        ELSE IF current_profit > 30 THEN "high_profit_exit"
        ELSE IF current_profit > 8 /\ Gt(last_candle["rsi"], 75) THEN "rsi_extreme_exit"
        ELSE "None"

BB_custom_exit(df, current_profit, held) ==
    LET last_candle == df[Len(df)]
    IN  IF current_profit > 30 THEN "high_profit_exit"
        ELSE IF current_profit > 10 /\ last_candle["bb_squeeze"] THEN "squeeze_return_exit"
        ELSE IF current_profit > 8 /\ Gt(last_candle["rsi"], 75) THEN "rsi_extreme_exit"
        ELSE "None"

BB_leverage(proposed_leverage, max_leverage) == 10

\* candle rows: inside a squeeze S, breaking out of it B, just under the band N,
\* wide bands W, every alternative exit predicate X, only one of them X1,
\* breaking down BD, and a flat market Z (ZB: flat bands, close above them)
BB_S ==
    [close |-> 1000, volume |-> 400, ta_bb_lower |-> 996, ta_bb_middle |-> 1000,
     ta_bb_upper |-> 1004, ta_rsi |-> 60, ta_volume_sma |-> 100, ta_adx |-> 30,
     ta_macd |-> 3, ta_macdsignal |-> 1, ta_macdhist |-> 2, ta_ema_fast |-> 995,
     ta_atr20 |-> 10, ta_atr |-> 10]
BB_B == [BB_S EXCEPT !.close = 1010]
BB_N == [BB_S EXCEPT !.close = 1003]
BB_W == [BB_S EXCEPT !.ta_bb_lower = 900, !.ta_bb_upper = 1100, !.ta_rsi = 80,
                     !.ta_atr = 20]
BB_X == [BB_S EXCEPT !.close = 1003, !.ta_rsi = 40, !.ta_macd = 1, !.ta_macdsignal = 2,
                     !.ta_macdhist = -1, !.volume = 50, !.ta_ema_fast = 1005]
BB_X1 == [BB_S EXCEPT !.ta_rsi = 40]
BB_BD == [BB_S EXCEPT !.close = 990]
BB_Z ==
    [close |-> 1000, volume |-> 0, ta_bb_lower |-> 1000, ta_bb_middle |-> 1000,
     ta_bb_upper |-> 1000, ta_rsi |-> 50, ta_volume_sma |-> 0, ta_adx |-> 0,
     ta_macd |-> 0, ta_macdsignal |-> 0, ta_macdhist |-> 0, ta_ema_fast |-> 1000,
     ta_atr20 |-> 0, ta_atr |-> 0]
BB_ZB == [BB_S EXCEPT !.close = 1010, !.ta_bb_lower = 1000, !.ta_bb_upper = 1000]

BB_rows == {BB_S, BB_B, BB_N, BB_W, BB_X, BB_X1, BB_BD, BB_Z, BB_ZB}

(***************************************************************************)
(* MACDEMAStrategy                                                         *)
(***************************************************************************)
MACD_stoploss == -60
MACD_startup_candle_count == 60

MACD_default ==
    [macd_fast |-> 12, macd_slow |-> 26, macd_signal |-> 9, ema_short |-> 12,
     ema_medium |-> 21, ema_long |-> 50, rsi_period |-> 14, rsi_buy_max |-> 70,
     rsi_sell_min |-> 30, volume_factor |-> 1800]
\* the IntParameter ranges of the periods, ends included
MACD_period_ranges ==
    [macd_fast |-> 8 .. 15, macd_slow |-> 20 .. 30, ema_short |-> 8 .. 15,
     ema_medium |-> 18 .. 25, ema_long |-> 45 .. 55]
MACD_low ==
    [macd_fast |-> 8, macd_slow |-> 20, macd_signal |-> 7, ema_short |-> 8,
     ema_medium |-> 18, ema_long |-> 45, rsi_period |-> 12, rsi_buy_max |-> 65,
     rsi_sell_min |-> 25, volume_factor |-> 1200]
MACD_high ==
    [macd_fast |-> 15, macd_slow |-> 30, macd_signal |-> 12, ema_short |-> 15,
     ema_medium |-> 25, ema_long |-> 55, rsi_period |-> 18, rsi_buy_max |-> 75,
     rsi_sell_min |-> 35, volume_factor |-> 2500]

MACD_macd_cross_above(df, i) ==
    /\ Gt(df[i]["macd"], df[i]["macdsignal"])
    /\ Le(shift(df, "macd", 1, i), shift(df, "macdsignal", 1, i))

\* the downward crossing reported one row late
MACD_macd_cross_below_lagging(df, i) ==
    /\ Lt(shift(df, "macd", 1, i), shift(df, "macdsignal", 1, i))
    /\ Ge(shift(df, "macd", 2, i), shift(df, "macdsignal", 2, i))

MACD_macd_cross_below(df, i) ==
    /\ Lt(df[i]["macd"], df[i]["macdsignal"])
    /\ Ge(shift(df, "macd", 1, i), shift(df, "macdsignal", 1, i))

MACD_uptrend(df, i) ==
    /\ Gt(df[i]["ema_short"], df[i]["ema_medium"])
    /\ Gt(df[i]["ema_medium"], df[i]["ema_long"])
    /\ Gt(df[i]["close"], df[i]["ema_short"])

MACD_downtrend(df, i) ==
    /\ Lt(df[i]["ema_short"], df[i]["ema_medium"])
    /\ Lt(df[i]["ema_medium"], df[i]["ema_long"])
    /\ Lt(df[i]["close"], df[i]["ema_short"])

MACD_populate_indicators(df, cs, p) ==
    LET lb == LookbackMACD(p.macd_fast, p.macd_slow, p.macd_signal)
        d1 == assign(df, [i \in Rows(df) |->
                [macd       |-> ta(lb, Candle(cs, i).ta_macd, i),
                 macdsignal |-> ta(lb, Candle(cs, i).ta_macdsignal, i),
                 macdhist   |-> ta(lb, Candle(cs, i).ta_macdhist, i),
                 ema_short  |-> ta(LookbackEMA(p.ema_short), Candle(cs, i).ta_ema_short, i),
                 ema_medium |-> ta(LookbackEMA(p.ema_medium), Candle(cs, i).ta_ema_medium, i),
                 ema_long   |-> ta(LookbackEMA(p.ema_long), Candle(cs, i).ta_ema_long, i),
                 rsi |-> ta(LookbackRSI(p.rsi_period), Candle(cs, i).ta_rsi, i),
                 volume_sma |-> ta(LookbackSMA(20), Candle(cs, i).ta_volume_sma, i),
                 adx |-> ta(LookbackADX(14), Candle(cs, i).ta_adx, i),
                 stoch_k |-> ta(LookbackSTOCH, Candle(cs, i).ta_stoch_k, i),
                 stoch_d |-> ta(LookbackSTOCH, Candle(cs, i).ta_stoch_d, i),
                 atr |-> ta(LookbackATR(14), Candle(cs, i).ta_atr, i)]])
        d2 == assign(d1, [i \in Rows(df) |->
                [macd_cross_above |-> MACD_macd_cross_above(d1, i),
                 macd_cross_below |-> MACD_macd_cross_below(d1, i),
                 uptrend   |-> MACD_uptrend(d1, i),
                 downtrend |-> MACD_downtrend(d1, i),
                 volume_ratio |-> Quot(d1[i]["volume"], d1[i]["volume_sma"]),
                 bb_percent |->
                     Quot(Sub(d1[i]["close"], ta(LookbackBBANDS(20), Candle(cs, i).ta_bb_lower, i)),
                          Sub(ta(LookbackBBANDS(20), Candle(cs, i).ta_bb_upper, i),
                              ta(LookbackBBANDS(20), Candle(cs, i).ta_bb_lower, i)))]])
    IN  d2

\* the list `conditions` of populate_entry_trend on row i
MACD_entry_conditions(df, p, i) ==
    << df[i]["macd_cross_above"],
       df[i]["uptrend"],
       Gt(df[i]["macd"], -1),
       QGt(df[i]["volume_ratio"], p.volume_factor),
       Lt(df[i]["rsi"], p.rsi_buy_max),
       Gt(df[i]["adx"], 25),
       QLt(df[i]["bb_percent"], 850),
       Gt(df[i]["stoch_k"], df[i]["stoch_d"]) /\ Lt(df[i]["stoch_k"], 80),
       Gt(df[i]["macdhist"], shift(df, "macdhist", 1, i)),
       Gt(df[i]["close"], df[i]["ema_medium"]) >>

MACD_populate_entry_trend(df, p) ==
    loc_set(df, [i \in Rows(df) |-> logical_and_reduce(MACD_entry_conditions(df, p, i))],
            "enter_long")

\* the main exit taken on the upward crossing
MACD_exit_conditions_on_cross_above(df, p, i) == << df[i]["macd_cross_above"] >>

MACD_exit_conditions(df, p, i) == << df[i]["macd_cross_below"] >>

MACD_alt_conditions_1(df, p, i) ==
    << Gt(df[i]["rsi"], 80), QGt(df[i]["bb_percent"], 950) >>

MACD_alt_conditions_2(df, p, i) ==
    << Lt(df[i]["close"], df[i]["ema_short"]), Lt(df[i]["ema_short"], df[i]["ema_medium"]) >>

MACD_alt_conditions_3(df, p, i) ==
    << Lt(df[i]["stoch_k"], df[i]["stoch_d"]), Gt(df[i]["stoch_k"], 80) >>

MACD_populate_exit_trend(df, p) ==
    LET main_exit  == [i \in Rows(df) |-> logical_and_reduce(MACD_exit_conditions(df, p, i))]
        alt_exit_1 == [i \in Rows(df) |-> logical_and_reduce(MACD_alt_conditions_1(df, p, i))]
        alt_exit_2 == [i \in Rows(df) |-> logical_and_reduce(MACD_alt_conditions_2(df, p, i))]
        alt_exit_3 == [i \in Rows(df) |-> logical_and_reduce(MACD_alt_conditions_3(df, p, i))]
        final_exit == [i \in Rows(df) |->
                          main_exit[i] \/ alt_exit_1[i] \/ alt_exit_2[i] \/ alt_exit_3[i]]
    IN  loc_set(df, final_exit, "exit_long")

MACD_confirm_trade_entry == TRUE

MACD_custom_stoploss(df, current_rate) ==
    LET last_candle == df[Len(df)]
    IN  max(neg(atr_stop(25, last_candle["atr"], current_rate)), Quot(MACD_stoploss, 1000))

MACD_custom_exit(df, current_profit, held) ==
    LET last_candle == df[Len(df)]
        n == Len(df)
    IN  IF current_profit > 150 /\ Gt(last_candle["rsi"], 85) THEN "high_profit_extreme_rsi"
        ELSE IF /\ n >= 3
                /\ Lt(df[n]["macdhist"], df[n - 1]["macdhist"])
                /\ Lt(df[n - 1]["macdhist"], df[n - 2]["macdhist"])
                /\ current_profit > 50
             THEN "macd_histogram_declining"
        ELSE "None"

MACD_leverage(proposed_leverage, max_leverage) == 10

\* candle rows: the entry row G, the row before the MACD crossing Q, the crossing
\* below D (DR: with an extreme RSI), G with one entry predicate failing, the
\* alternative exits E1..E3, and a flat market Z
MACD_G ==
    [close |-> 1050, volume |-> 300, ta_macd |-> 3, ta_macdsignal |-> 1,
     ta_macdhist |-> 2, ta_ema_short |-> 1040, ta_ema_medium |-> 1020,
     ta_ema_long |-> 1000, ta_rsi |-> 50, ta_volume_sma |-> 100, ta_adx |-> 30,
     ta_bb_lower |-> 1000, ta_bb_upper |-> 1100, ta_stoch_k |-> 60, ta_stoch_d |-> 50,
     ta_atr |-> 20]
MACD_Q == [MACD_G EXCEPT !.ta_macd = 1, !.ta_macdhist = 0, !.ta_atr = 10]
MACD_D == [MACD_G EXCEPT !.ta_macd = 0, !.ta_macdhist = -1, !.ta_atr = 10]
MACD_DR == [MACD_D EXCEPT !.ta_rsi = 90]
MACD_GM == [MACD_G EXCEPT !.ta_macd = -1, !.ta_macdsignal = -3]
MACD_GV == [MACD_G EXCEPT !.volume = 100]
MACD_GR == [MACD_G EXCEPT !.ta_rsi = 90]
MACD_GA == [MACD_G EXCEPT !.ta_adx = 20]
MACD_GB == [MACD_G EXCEPT !.close = 1090]
MACD_GS == [MACD_G EXCEPT !.ta_stoch_k = 85, !.ta_stoch_d = 82]
MACD_GU == [MACD_G EXCEPT !.ta_ema_medium = 990]
MACD_E1 == [MACD_G EXCEPT !.ta_rsi = 90, !.close = 1099]
MACD_E2 == [MACD_G EXCEPT !.close = 1000, !.ta_ema_short = 1010]
MACD_E3 == [MACD_G EXCEPT !.ta_stoch_k = 85, !.ta_stoch_d = 90]
MACD_Z ==
    [close |-> 1000, volume |-> 0, ta_macd |-> 0, ta_macdsignal |-> 0,
     ta_macdhist |-> 0, ta_ema_short |-> 1000, ta_ema_medium |-> 1000,
     ta_ema_long |-> 1000, ta_rsi |-> 50, ta_volume_sma |-> 0, ta_adx |-> 0,
     ta_bb_lower |-> 1000, ta_bb_upper |-> 1000, ta_stoch_k |-> 50, ta_stoch_d |-> 50,
     ta_atr |-> 0]

MACD_rows == {MACD_G, MACD_Q, MACD_D, MACD_GM, MACD_GV, MACD_GR, MACD_GA, MACD_GB,
              MACD_GS, MACD_GU, MACD_E1, MACD_E2, MACD_E3, MACD_Z}

(***************************************************************************)
(* RSIBBStrategy                                                           *)
(***************************************************************************)
RSIBB_stoploss == -50
RSIBB_startup_candle_count == 30

RSIBB_default ==
    [rsi_period |-> 14, rsi_buy_threshold |-> 30, rsi_sell_threshold |-> 70,
     bb_period |-> 20, bb_std |-> 2000, volume_factor |-> 1500]
RSIBB_low ==
    [rsi_period |-> 10, rsi_buy_threshold |-> 25, rsi_sell_threshold |-> 65,
     bb_period |-> 15, bb_std |-> 1500, volume_factor |-> 1000]
RSIBB_high ==
    [rsi_period |-> 20, rsi_buy_threshold |-> 35, rsi_sell_threshold |-> 75,
     bb_period |-> 25, bb_std |-> 2500, volume_factor |-> 2000]

RSIBB_populate_indicators(df, cs, p) ==
    LET d1 == assign(df, [i \in Rows(df) |->
                [rsi |-> ta(LookbackRSI(p.rsi_period), Candle(cs, i).ta_rsi, i),
                 bb_lowerband  |-> ta(LookbackBBANDS(p.bb_period), Candle(cs, i).ta_bb_lower, i),
                 bb_middleband |-> ta(LookbackBBANDS(p.bb_period), Candle(cs, i).ta_bb_middle, i),
                 bb_upperband  |-> ta(LookbackBBANDS(p.bb_period), Candle(cs, i).ta_bb_upper, i),
                 volume_sma |-> ta(LookbackSMA(20), Candle(cs, i).ta_volume_sma, i),
                 ema_short |-> ta(LookbackEMA(9), Candle(cs, i).ta_ema_short, i),
                 ema_long  |-> ta(LookbackEMA(21), Candle(cs, i).ta_ema_long, i),
                 macd       |-> ta(LookbackMACD(12, 26, 9), Candle(cs, i).ta_macd, i),
                 macdsignal |-> ta(LookbackMACD(12, 26, 9), Candle(cs, i).ta_macdsignal, i),
                 macdhist   |-> ta(LookbackMACD(12, 26, 9), Candle(cs, i).ta_macdhist, i),
                 adx |-> ta(LookbackADX(14), Candle(cs, i).ta_adx, i)]])
        d2 == assign(d1, [i \in Rows(df) |->
                [bb_percent |-> Quot(Sub(d1[i]["close"], d1[i]["bb_lowerband"]),
                                     Sub(d1[i]["bb_upperband"], d1[i]["bb_lowerband"])),
                 bb_width |-> Quot(Sub(d1[i]["bb_upperband"], d1[i]["bb_lowerband"]),
                                   d1[i]["bb_middleband"])]])
    IN  d2

\* the list `conditions` of populate_entry_trend on row i
RSIBB_entry_conditions(df, p, i) ==
    << Lt(df[i]["rsi"], p.rsi_buy_threshold),
       \/ Le(Mul(df[i]["close"], 100), Mul(df[i]["bb_lowerband"], 102))
       \/ QLt(df[i]["bb_percent"], 100),
       Gt(Mul(df[i]["volume"], 1000), Mul(df[i]["volume_sma"], p.volume_factor)),
       Gt(df[i]["macd"], df[i]["macdsignal"]) \/ Gt(df[i]["macdhist"], 0),
       Gt(df[i]["adx"], 20),
       QGt(df[i]["bb_width"], 20) >>

RSIBB_populate_entry_trend(df, p) ==
    loc_set(df, [i \in Rows(df) |-> logical_and_reduce(RSIBB_entry_conditions(df, p, i))],
            "enter_long")

RSIBB_exit_conditions(df, p, i) ==
    << Gt(df[i]["rsi"], p.rsi_sell_threshold),
       \/ Ge(Mul(df[i]["close"], 100), Mul(df[i]["bb_upperband"], 98))
       \/ QGt(df[i]["bb_percent"], 900) >>

RSIBB_alt_conditions(df, p, i) ==
    << Lt(df[i]["macd"], df[i]["macdsignal"]), Lt(df[i]["macdhist"], 0) >>

RSIBB_populate_exit_trend(df, p) ==
    LET final_condition == [i \in Rows(df) |->
            \/ logical_and_reduce(RSIBB_exit_conditions(df, p, i))
            \/ logical_and_reduce(RSIBB_alt_conditions(df, p, i))]
    IN  loc_set(df, final_condition, "exit_long")

RSIBB_confirm_trade_entry == TRUE

\* returns None: no override
RSIBB_custom_stoploss(df, current_rate) == [kind |-> "None", ret |-> 0]

RSIBB_leverage(proposed_leverage, max_leverage) == 10

\* candle rows: the entry row G, G with one entry predicate failing, the MACD
\* exit A, the RSI and band exit X (X1: its RSI half only), and a flat market Z
RSIBB_G ==
    [close |-> 1000, volume |-> 300, ta_rsi |-> 20, ta_bb_lower |-> 1000,
     ta_bb_middle |-> 1050, ta_bb_upper |-> 1100, ta_volume_sma |-> 100,
     ta_ema_short |-> 1010, ta_ema_long |-> 1020, ta_macd |-> 3, ta_macdsignal |-> 1,
     ta_macdhist |-> 2, ta_adx |-> 30]
RSIBB_GR == [RSIBB_G EXCEPT !.ta_rsi = 50]
RSIBB_GC == [RSIBB_G EXCEPT !.close = 1050]
RSIBB_GV == [RSIBB_G EXCEPT !.volume = 100]
RSIBB_A  == [RSIBB_G EXCEPT !.ta_macd = 1, !.ta_macdsignal = 2, !.ta_macdhist = -1]
RSIBB_GA == [RSIBB_G EXCEPT !.ta_adx = 10]
RSIBB_GB == [RSIBB_G EXCEPT !.ta_bb_middle = 1005, !.ta_bb_upper = 1010]
RSIBB_X  == [RSIBB_G EXCEPT !.ta_rsi = 80, !.close = 1095]
RSIBB_X1 == [RSIBB_G EXCEPT !.ta_rsi = 80, !.close = 1050]
RSIBB_Z ==
    [close |-> 1000, volume |-> 0, ta_rsi |-> 80, ta_bb_lower |-> 1000,
     ta_bb_middle |-> 1000, ta_bb_upper |-> 1000, ta_volume_sma |-> 0,
     ta_ema_short |-> 1000, ta_ema_long |-> 1000, ta_macd |-> 0, ta_macdsignal |-> 0,
     ta_macdhist |-> 0, ta_adx |-> 0]

RSIBB_rows == {RSIBB_G, RSIBB_GR, RSIBB_GC, RSIBB_GV, RSIBB_A, RSIBB_GA, RSIBB_GB,
               RSIBB_X, RSIBB_X1, RSIBB_Z}

(***************************************************************************)
(* The strategies behind one interface                                     *)
(***************************************************************************)
Strategies ==
    {"BollingerSqueezeScalpStrategy", "EMAScalpingStrategy", "MACDEMAStrategy",
     "RSIBBStrategy"}

startup_candle_count(s) ==
    CASE s = "BollingerSqueezeScalpStrategy" -> BB_startup_candle_count
      [] s = "EMAScalpingStrategy" -> EMA_startup_candle_count
      [] s = "MACDEMAStrategy" -> MACD_startup_candle_count
      [] s = "RSIBBStrategy" -> RSIBB_startup_candle_count

populate_indicators(s, df, cs, p) ==
    CASE s = "BollingerSqueezeScalpStrategy" -> BB_populate_indicators(df, cs, p)
      [] s = "EMAScalpingStrategy" -> EMA_populate_indicators(df, cs, p)
      [] s = "MACDEMAStrategy" -> MACD_populate_indicators(df, cs, p)
      [] s = "RSIBBStrategy" -> RSIBB_populate_indicators(df, cs, p)

populate_entry_trend(s, df, p) ==
    CASE s = "BollingerSqueezeScalpStrategy" -> BB_populate_entry_trend(df, p)
      [] s = "EMAScalpingStrategy" -> EMA_populate_entry_trend(df, p)
      [] s = "MACDEMAStrategy" -> MACD_populate_entry_trend(df, p)
      [] s = "RSIBBStrategy" -> RSIBB_populate_entry_trend(df, p)

populate_exit_trend(s, df, p) ==
    CASE s = "BollingerSqueezeScalpStrategy" -> BB_populate_exit_trend(df, p)
      [] s = "EMAScalpingStrategy" -> EMA_populate_exit_trend(df, p)
      [] s = "MACDEMAStrategy" -> MACD_populate_exit_trend(df, p)
      [] s = "RSIBBStrategy" -> RSIBB_populate_exit_trend(df, p)

\* dataframe.iloc[-1] of an empty table raises IndexError
custom_stoploss(s, df, current_rate) ==
    IF s = "RSIBBStrategy" THEN RSIBB_custom_stoploss(df, current_rate)
    ELSE IF Len(df) = 0 THEN [kind |-> "raise", ret |-> 0]
    ELSE [kind |-> "float",
          ret |-> CASE s = "BollingerSqueezeScalpStrategy" -> BB_custom_stoploss(df, current_rate)
                    [] s = "EMAScalpingStrategy" -> EMA_custom_stoploss(df, current_rate)
                    [] s = "MACDEMAStrategy" -> MACD_custom_stoploss(df, current_rate)]

custom_exit(s, df, current_profit, held, aware) ==
    IF Len(df) = 0 THEN [kind |-> "raise", ret |-> "IndexError"]
    ELSE LET r == CASE s = "BollingerSqueezeScalpStrategy" -> BB_custom_exit(df, current_profit, held)
                    [] s = "EMAScalpingStrategy" ->
                            EMA_custom_exit(df, current_profit, held, aware)
                    [] s = "MACDEMAStrategy" -> MACD_custom_exit(df, current_profit, held)
         IN  [kind |-> IF r = "None" THEN "None"
                       ELSE IF r = "TypeError" THEN "raise" ELSE "str",
              ret |-> r]

leverage(s, proposed_leverage, max_leverage) ==
    CASE s = "BollingerSqueezeScalpStrategy" -> BB_leverage(proposed_leverage, max_leverage)
      [] s = "EMAScalpingStrategy" -> EMA_leverage(proposed_leverage, max_leverage)
      [] s = "MACDEMAStrategy" -> MACD_leverage(proposed_leverage, max_leverage)
      [] s = "RSIBBStrategy" -> RSIBB_leverage(proposed_leverage, max_leverage)

confirm_trade_entry(s) ==
    CASE s = "MACDEMAStrategy" -> MACD_confirm_trade_entry
      [] s = "RSIBBStrategy" -> RSIBB_confirm_trade_entry

(***************************************************************************)
(* The candle tables handed over by the framework                          *)
(***************************************************************************)
\* rows past the declared warm-up that a table may hold
Margin == 6

\* a table of n rows repeating the rows of pat
Table(pat, n) == [pat |-> pat, n |-> n]

Pairs(rows) == {<<a, b>> : a \in rows, b \in rows}

Profiles(s) ==
    CASE s = "BollingerSqueezeScalpStrategy" -> {BB_default, BB_low, BB_high}
      [] s = "EMAScalpingStrategy" -> {EMA_default, EMA_low, EMA_high, EMA_overlap, EMA_meeting}
      [] s = "MACDEMAStrategy" -> {MACD_default, MACD_low, MACD_high}
      [] s = "RSIBBStrategy" -> {RSIBB_default, RSIBB_low, RSIBB_high}

\* patterns tried at every length
WarmupPatterns(s) ==
    CASE s = "BollingerSqueezeScalpStrategy" ->
            {<<BB_S, BB_B>>, <<BB_S, BB_BD>>, <<BB_S, BB_X>>, <<BB_W, BB_Z>>}
      [] s = "EMAScalpingStrategy" ->
            {<<EMA_Q, EMA_G>>, <<EMA_G, EMA_D>>, <<EMA_GH, EMA_Z>>,
             <<EMA_Q, EMA_G, EMA_G>>, <<EMA_Q, EMA_GT>>}
      [] s = "MACDEMAStrategy" ->
            {<<MACD_Q, MACD_G>>, <<MACD_G, MACD_D>>, <<MACD_E1, MACD_Z>>,
             <<MACD_G, MACD_Q, MACD_DR>>}
      [] s = "RSIBBStrategy" ->
            {<<RSIBB_G, RSIBB_X>>, <<RSIBB_G, RSIBB_A>>, <<RSIBB_X1, RSIBB_Z>>}

\* patterns tried on full tables only
Patterns(s) ==
    CASE s = "BollingerSqueezeScalpStrategy" -> Pairs(BB_rows)
      [] s = "EMAScalpingStrategy" -> Pairs(EMA_rows)
      [] s = "MACDEMAStrategy" -> Pairs(MACD_rows)
      [] s = "RSIBBStrategy" -> Pairs(RSIBB_rows)

MaxRows(s) == startup_candle_count(s) + Margin

Tables(s) ==
    {Table(pat, n) : pat \in WarmupPatterns(s), n \in 0 .. MaxRows(s)}
    \cup {Table(pat, MaxRows(s)) : pat \in Patterns(s)}

\* ta.EMA of the series x at row i: the mean of the first `period` values at row
\* `period`, then prev + 2/(period+1) * (x[i] - prev); rounded down to a tick
RECURSIVE talib_EMA(_, _, _)
talib_EMA(x, period, i) ==
    IF i < period THEN NaN
    ELSE IF i = period
    THEN LET sum[k \in 0 .. period] == IF k = 0 THEN 0 ELSE sum[k - 1] + x[k]
         IN  sum[period] \div period
    ELSE (2 * x[i] + (period - 1) * talib_EMA(x, period, i - 1)) \div (period + 1)

\* a price series of 40 rows: 20 bars up by `up` ticks each, then 20 bars down
RampRows == 20
RampSteps == {10, 500, 1000}
Ramp(up, down) ==
    frame([i \in 1 .. 2 * RampRows |->
            IF i <= RampRows THEN 100000 + up * i
            ELSE 100000 + up * RampRows - down * (i - RampRows)])

\* the candles of a ramp for EMAScalpingStrategy, the averages computed from the
\* closes with the periods of p
EMA_RampPattern(p, up, down) ==
    LET x == Ramp(up, down)
        fast == [i \in DOMAIN x |-> talib_EMA(x, p.ema_fast, i)]
        medium == [i \in DOMAIN x |-> talib_EMA(x, p.ema_medium, i)]
        slow == [i \in DOMAIN x |-> talib_EMA(x, p.ema_slow, i)]
    IN  frame([i \in DOMAIN x |->
                [EMA_G EXCEPT !.close = x[i], !.ta_ema_fast = fast[i],
                              !.ta_ema_medium = medium[i], !.ta_ema_slow = slow[i]]])

RampTables(s, p) ==
    IF s = "EMAScalpingStrategy"
    THEN {Table(EMA_RampPattern(p, up, down), 2 * RampRows) : up, down \in RampSteps}
    ELSE {}

\* the candle columns of the table before any stage ran
Raw(cs) ==
    frame([i \in 1 .. cs.n |->
            [close |-> Candle(cs, i).close, volume |-> Candle(cs, i).volume]])

\* the callbacks' inputs: prices in ticks, profits in 1/1000, holding times in seconds
Rates == {500, 1000, 1500}
\* profits (in 1/1000) on either side of the thresholds custom_exit compares with
Profits(s) ==
    CASE s = "BollingerSqueezeScalpStrategy" -> {-10, 6, 9, 15, 35}
      [] s = "EMAScalpingStrategy" -> {-10, 6, 25}
      [] s = "MACDEMAStrategy" -> {-10, 6, 60, 160}
      [] s = "RSIBBStrategy" -> {}
Helds(s) == IF s = "EMAScalpingStrategy" THEN {60, 120} ELSE {0}
\* current_time with a timezone (as the framework passes it) or without
Awares(s) == IF s = "EMAScalpingStrategy" THEN {TRUE, FALSE} ELSE {TRUE}
ProposedLeverages == {1, 3}
MaxLeverages == {5, 20}

NoCall ==
    [fn |-> "none", again |-> FALSE, current_rate |-> 0, current_profit |-> 0,
     held |-> 0, aware |-> TRUE, in_progress |-> FALSE, proposed_leverage |-> 0, max_leverage |-> 0, kind |-> "None",
     ret |-> 0]

\* the rows of Tables carry distinct fast and medium averages, which equal periods
\* cannot produce: with ema_fast = ema_medium only the computed tables are handed over
Inputs(s, p) ==
    IF s = "EMAScalpingStrategy" /\ p.ema_fast = p.ema_medium THEN RampTables(s, p)
    ELSE Tables(s) \cup RampTables(s, p)

Init ==
    /\ strategy \in Strategies
    /\ params \in Profiles(strategy)
    /\ candles \in Inputs(strategy, params)
    /\ dataframe = Raw(candles)
    /\ stage = "candles"
    /\ call = NoCall

(***************************************************************************)
(* The stages, in the framework's order; a stage may be run a second time  *)
(* on its own result (call.again)                                          *)
(***************************************************************************)
PopulateIndicators ==
    /\ stage = "candles" \/ (stage = "indicators" /\ ~call.again)
    /\ dataframe' = populate_indicators(strategy, dataframe, candles, params)
    /\ stage' = "indicators"
    /\ call' = [NoCall EXCEPT !.fn = "populate_indicators",
                              !.again = (stage = "indicators")]
    /\ UNCHANGED <<strategy, params, candles>>

PopulateEntryTrend ==
    /\ stage = "indicators" \/ (stage = "entry" /\ ~call.again)
    /\ dataframe' = populate_entry_trend(strategy, dataframe, params)
    /\ stage' = "entry"
    /\ call' = [NoCall EXCEPT !.fn = "populate_entry_trend",
                              !.again = (stage = "entry")]
    /\ UNCHANGED <<strategy, params, candles>>

PopulateExitTrend ==
    /\ stage = "entry" \/ (stage = "exit" /\ ~call.again)
    /\ dataframe' = populate_exit_trend(strategy, dataframe, params)
    /\ stage' = "exit"
    /\ call' = [NoCall EXCEPT !.fn = "populate_exit_trend",
                              !.again = (stage = "exit")]
    /\ UNCHANGED <<strategy, params, candles>>

\* the framework keeps the analyzed table: get_analyzed_dataframe returns it
CacheAnalyzed ==
    /\ stage = "exit"
    /\ stage' = "analyzed"
    /\ call' = NoCall
    /\ UNCHANGED <<strategy, params, candles, dataframe>>

(***************************************************************************)
(* The runtime callbacks, on the analyzed table, one invocation at a time  *)
(***************************************************************************)
\* a callback that notes the stop it returns on the last row of the cached table
CustomStoploss_marking ==
    /\ stage = "analyzed" /\ call.fn = "none"
    /\ \E current_rate \in Rates, in_progress \in BOOLEAN :
         LET r == custom_stoploss(strategy, dataframe, current_rate)
         IN  /\ call' = [NoCall EXCEPT !.fn = "custom_stoploss",
                                       !.current_rate = current_rate,
                                       !.in_progress = in_progress,
                                       !.kind = r.kind, !.ret = r.ret]
             /\ dataframe' = [i \in Rows(dataframe) |->
                                IF i = Len(dataframe) THEN ("stop" :> r.ret) @@ dataframe[i]
                                ELSE dataframe[i]]
    /\ UNCHANGED <<strategy, params, candles, stage>>

\* in_progress: whether the final row of the table that dp.get_analyzed_dataframe
\* hands over is a candle that has not closed yet; the callback is given no such
\* mark and reads dataframe.iloc[-1] either way
CustomStoploss ==
    /\ stage = "analyzed" /\ call.fn = "none"
    /\ \E current_rate \in Rates, in_progress \in BOOLEAN :
         LET r == custom_stoploss(strategy, dataframe, current_rate)
         IN  call' = [NoCall EXCEPT !.fn = "custom_stoploss", !.current_rate = current_rate,
                                    !.in_progress = in_progress,
                                    !.kind = r.kind, !.ret = r.ret]
    /\ UNCHANGED <<strategy, params, candles, dataframe, stage>>

CustomExit ==
    /\ stage = "analyzed" /\ call.fn = "none"
    /\ strategy # "RSIBBStrategy"
    /\ \E current_profit \in Profits(strategy), held \in Helds(strategy), aware \in Awares(strategy) :
         LET r == custom_exit(strategy, dataframe, current_profit, held, aware)
         IN  call' = [NoCall EXCEPT !.fn = "custom_exit", !.current_profit = current_profit,
                                    !.held = held, !.aware = aware,
                                    !.kind = r.kind, !.ret = r.ret]
    /\ UNCHANGED <<strategy, params, candles, dataframe, stage>>

Leverage ==
    /\ stage = "analyzed" /\ call.fn = "none"
    /\ \E proposed_leverage \in ProposedLeverages, max_leverage \in MaxLeverages :
         call' = [NoCall EXCEPT !.fn = "leverage",
                                !.proposed_leverage = proposed_leverage,
                                !.max_leverage = max_leverage, !.kind = "float",
                                !.ret = leverage(strategy, proposed_leverage, max_leverage)]
    /\ UNCHANGED <<strategy, params, candles, dataframe, stage>>

ConfirmTradeEntry ==
    /\ stage = "analyzed" /\ call.fn = "none"
    /\ strategy \in {"MACDEMAStrategy", "RSIBBStrategy"}
    /\ call' = [NoCall EXCEPT !.fn = "confirm_trade_entry", !.kind = "bool",
                              !.ret = confirm_trade_entry(strategy)]
    /\ UNCHANGED <<strategy, params, candles, dataframe, stage>>

\* the framework takes the returned value
Return ==
    /\ stage = "analyzed" /\ call.fn # "none"
    /\ call' = NoCall
    /\ UNCHANGED <<strategy, params, candles, dataframe, stage>>

Next ==
    \/ PopulateIndicators
    \/ PopulateEntryTrend
    \/ PopulateExitTrend
    \/ CacheAnalyzed
    \/ CustomStoploss
    \/ CustomExit
    \/ Leverage
    \/ ConfirmTradeEntry
    \/ Return

Spec == Init /\ [][Next]_vars

(***************************************************************************)
(* Properties                                                              *)
(***************************************************************************)
BB == "BollingerSqueezeScalpStrategy"
EMA == "EMAScalpingStrategy"
MACD == "MACDEMAStrategy"
RSIBB == "RSIBBStrategy"

\* the last row of the analyzed table
Last == dataframe[Len(dataframe)]

AllOf(conds) == \A k \in DOMAIN conds : conds[k]
AnyOf(conds) == \E k \in DOMAIN conds : conds[k]

\* a flag column holds 1 on some row
FlagSet(col) == \E i \in Rows(dataframe) : dataframe[i][col] = 1

\* the table is shorter than the declared warm-up
Short == Len(dataframe) < startup_candle_count(strategy)

\* ---------------------------------------------------------------- C1, C2
\* the ATR multiplier (in tenths) and the static stoploss (in 1/1000) by strategy
StoplossTerms ==
    CASE strategy = BB -> [mult10 |-> 20, floor |-> -25]
      [] strategy = EMA -> [mult10 |-> 15, floor |-> -20]
      [] strategy = MACD -> [mult10 |-> 25, floor |-> -60]

\* C1: in BollingerSqueezeScalpStrategy (multiplier 2.0, floor -0.025),
\* EMAScalpingStrategy (1.5, -0.02) and MACDEMAStrategy (2.5, -0.06), for every
\* ATR value of the last row and every current price > 0, custom_stoploss returns
\* the larger of -(multiplier * ATR / current_rate) and the static stoploss, and
\* its result is never below the static stoploss.  (On a last row without an ATR
\* the result is NaN, which is not below the floor either.)
C1_StoplossIsLargerOfAtrStopAndFloor ==
    (call.fn = "custom_stoploss" /\ call.kind = "float") =>
        LET t == StoplossTerms
            atr == Last["atr"]
            dyn_n == -(t.mult10 * atr)
            dyn_d == 10 * call.current_rate
            r == call.ret
        IN  /\ atr # NaN =>
                /\ r.d > 0
                /\ IF dyn_n * 1000 > t.floor * dyn_d
                   THEN r.n * dyn_d = dyn_n * r.d
                   ELSE r.n * 1000 = t.floor * r.d
            /\ ~(r.d > 0 /\ r.n * 1000 < t.floor * r.d)
            /\ ~(r.d = 0 /\ r.n < 0)

\* a call where the ATR stop is tighter than the floor, and is what comes back
C1_AtrStopReturned ==
    /\ call.fn = "custom_stoploss" /\ call.kind = "float"
    /\ Last["atr"] # NaN /\ Last["atr"] > 0
    /\ call.ret.d > 0
    /\ call.ret.n * 1000 > StoplossTerms.floor * call.ret.d

\* C2: in every strategy, for every ATR >= 0 of the last row (ATR = 0 included)
\* and every current price > 0, custom_stoploss returns a strictly negative
\* fraction or None, never zero or a positive number.
C2_StoplossStrictlyNegativeOrNone ==
    (call.fn = "custom_stoploss" /\ call.kind # "raise") =>
        \/ call.kind = "None"
        \/ (Last["atr"] # NaN /\ Last["atr"] >= 0) =>
               (call.ret.d > 0 /\ call.ret.n < 0)

\* ---------------------------------------------------------------- C3
\* the escape conditions of custom_exit, in the order of the claim
ExitChecks ==
    LET profit == call.current_profit
        rsi == Last["rsi"]
        n == Len(dataframe)
    IN  CASE strategy = BB ->
              << [label |-> "high_profit_exit", holds |-> profit > 30],
                 [label |-> "squeeze_return_exit",
                  holds |-> profit > 10 /\ Last["bb_squeeze"]],
                 [label |-> "rsi_extreme_exit",
                  holds |-> profit > 8 /\ rsi # NaN /\ rsi > 75] >>
          [] strategy = EMA ->
              << [label |-> "quick_profit_scalp",
                  holds |-> profit > 20 /\ call.held < 120],
                 [label |-> "rsi_extreme_exit",
                  holds |-> profit > 5 /\ rsi # NaN /\ rsi > 80] >>
          [] strategy = MACD ->
              << [label |-> "high_profit_extreme_rsi",
                  holds |-> profit > 150 /\ rsi # NaN /\ rsi > 85],
                 [label |-> "macd_histogram_declining",
                  holds |-> /\ n >= 3
                            /\ dataframe[n - 2]["macdhist"] # NaN
                            /\ dataframe[n]["macdhist"] < dataframe[n - 1]["macdhist"]
                            /\ dataframe[n - 1]["macdhist"] < dataframe[n - 2]["macdhist"]
                            /\ profit > 50] >>

C4_NoSignalOnShortTables ==
    Short =>
        /\ call.fn = "populate_entry_trend" => ~FlagSet("enter_long")
        /\ call.fn = "populate_exit_trend" => ~FlagSet("exit_long")

\* C4 (amended): on every table shorter than startup_candle_count,
\* populate_entry_trend sets enter_long on no row in BollingerSqueezeScalpStrategy,
\* EMAScalpingStrategy and RSIBBStrategy; exit_long, and enter_long in
\* MACDEMAStrategy, can be set on such a table.
C4_NoEntryOnShortTablesOutsideMACDEMA ==
    (Short /\ strategy # MACD /\ call.fn \in {"populate_entry_trend", "populate_exit_trend"})
        => ~FlagSet("enter_long")

\* a short table past both signal stages: an exit flag, and still no entry flag
C4_ShortTableWithExitOnly ==
    /\ Short /\ strategy # MACD
    /\ call.fn = "populate_exit_trend"
    /\ FlagSet("exit_long")
    /\ ~FlagSet("enter_long")

\* ---------------------------------------------------------------- C5
\* the crossover/breakout flags: the flag column, the two operands, the relation
CrossFlags ==
    CASE strategy = BB ->
            << [flag |-> "bb_break_up", a |-> "close", b |-> "bb_upperband", above |-> TRUE],
               [flag |-> "bb_break_down", a |-> "close", b |-> "bb_lowerband", above |-> FALSE] >>
      [] strategy = EMA ->
            << [flag |-> "ema_cross_up", a |-> "ema_fast", b |-> "ema_medium", above |-> TRUE],
               [flag |-> "ema_cross_down", a |-> "ema_fast", b |-> "ema_medium", above |-> FALSE] >>
      [] strategy = MACD ->
            << [flag |-> "macd_cross_above", a |-> "macd", b |-> "macdsignal", above |-> TRUE],
               [flag |-> "macd_cross_below", a |-> "macd", b |-> "macdsignal", above |-> FALSE] >>
      [] strategy = RSIBB -> << >>

BothDefined(f, i) == dataframe[i][f.a] # NaN /\ dataframe[i][f.b] # NaN

\* the strict relation of flag f holds on row i
Relation(f, i) ==
    /\ BothDefined(f, i)
    /\ IF f.above THEN dataframe[i][f.a] > dataframe[i][f.b]
       ELSE dataframe[i][f.a] < dataframe[i][f.b]

\* C5: every crossover/breakout flag is edge-triggered: true on row i only if the
\* strict relation holds on row i and did not hold on row i-1, both operands of
\* row i-1 being defined; the flag is never true on two consecutive rows, nor on
\* a row whose relation already held on the previous row.
C5_CrossFlagsEdgeTriggered ==
    call.fn = "populate_indicators" =>
        \A k \in DOMAIN CrossFlags, i \in Rows(dataframe) :
            LET f == CrossFlags[k]
            IN  /\ dataframe[i][f.flag] =>
                      /\ Relation(f, i)
                      /\ i > 1 /\ BothDefined(f, i - 1) /\ ~Relation(f, i - 1)
                /\ i > 1 => ~(dataframe[i][f.flag] /\ dataframe[i - 1][f.flag])
                /\ (i > 1 /\ Relation(f, i - 1)) => ~dataframe[i][f.flag]

\* a flag fires on one row, the relation still holds on the next, the flag is down
C5_FiresOnceWhileRelationLasts ==
    /\ call.fn = "populate_indicators"
    /\ \E k \in DOMAIN CrossFlags, i \in Rows(dataframe) :
           /\ i > 1
           /\ dataframe[i - 1][CrossFlags[k].flag]
           /\ Relation(CrossFlags[k], i)
           /\ ~dataframe[i][CrossFlags[k].flag]

\* ---------------------------------------------------------------- C6
\* the primary exit list and the alternative sets of the strategy on row i
Primary(i) ==
    CASE strategy = BB -> BB_exit_conditions(dataframe, params, i)
      [] strategy = EMA -> EMA_exit_conditions(dataframe, params, i)
      [] strategy = MACD -> MACD_exit_conditions(dataframe, params, i)
      [] strategy = RSIBB -> RSIBB_exit_conditions(dataframe, params, i)

AltSets(i) ==
    CASE strategy = BB -> << BB_alt_conditions(dataframe, params, i) >>
      [] strategy = EMA -> << EMA_alt_conditions(dataframe, params, i) >>
      [] strategy = MACD -> << MACD_alt_conditions_1(dataframe, params, i),
                               MACD_alt_conditions_2(dataframe, params, i),
                               MACD_alt_conditions_3(dataframe, params, i) >>
      [] strategy = RSIBB -> << RSIBB_alt_conditions(dataframe, params, i) >>

\* C6 (as stated): in every strategy each alternative set is combined by AND, and
\* exit_long is set on a row exactly when the primary conjunction holds or all
\* predicates of at least one alternative set hold.
C6_AlternativeSetsAreConjunctions ==
    call.fn = "populate_exit_trend" =>
        \A i \in Rows(dataframe) :
            (dataframe[i]["exit_long"] = 1) <=>
                (AllOf(Primary(i)) \/ \E a \in DOMAIN AltSets(i) : AllOf(AltSets(i)[a]))

\* C6 (amended): in BollingerSqueezeScalpStrategy, MACDEMAStrategy and
\* RSIBBStrategy each alternative set is combined by AND; in EMAScalpingStrategy
\* the three alternative predicates are combined by OR.  exit_long is set on a
\* row exactly when the primary conjunction holds or an alternative set, so
\* combined, holds.
C6_AlternativesAnyInEMAAllElsewhere ==
    call.fn = "populate_exit_trend" =>
        \A i \in Rows(dataframe) :
            (dataframe[i]["exit_long"] = 1) <=>
                \/ AllOf(Primary(i))
                \/ \E a \in DOMAIN AltSets(i) :
                       IF strategy = EMA THEN AnyOf(AltSets(i)[a]) ELSE AllOf(AltSets(i)[a])

\* an EMAScalpingStrategy row with ema_cross_down false and exactly one of the
\* three alternative predicates true: it carries the exit flag
C6_OneAlternativeSetsExitInEMA ==
    /\ call.fn = "populate_exit_trend"
    /\ strategy = EMA
    /\ \E i \in Rows(dataframe) :
           LET alt == EMA_alt_conditions(dataframe, params, i)
           IN  /\ ~dataframe[i]["ema_cross_down"]
               /\ Cardinality({k \in DOMAIN alt : alt[k]}) = 1
               /\ dataframe[i]["exit_long"] = 1

\* ---------------------------------------------------------------- C7
\* the list `conditions` of the strategy's populate_entry_trend on row i
EntryConditions(i) ==
    CASE strategy = BB -> BB_entry_conditions(dataframe, params, i)
      [] strategy = EMA -> EMA_entry_conditions(dataframe, params, i)
      [] strategy = MACD -> MACD_entry_conditions(dataframe, params, i)
      [] strategy = RSIBB -> RSIBB_entry_conditions(dataframe, params, i)

\* C7: populate_entry_trend sets enter_long = 1 on a row if and only if every
\* predicate of its conditions list holds on that row; a row with a false
\* predicate is not written (it keeps the column's missing value).
C7_EntryIffEveryConditionHolds ==
    call.fn = "populate_entry_trend" =>
        \A i \in Rows(dataframe) :
            dataframe[i]["enter_long"] = IF AllOf(EntryConditions(i)) THEN 1 ELSE NaN

\* a table with an entry row, and a row left alone for a single false predicate
C7_EntryRowAndNearMiss ==
    /\ call.fn = "populate_entry_trend"
    /\ \E i, j \in Rows(dataframe) :
           /\ AllOf(EntryConditions(i))
           /\ dataframe[i]["enter_long"] = 1
           /\ Cardinality({k \in DOMAIN EntryConditions(j) : ~EntryConditions(j)[k]}) = 1
           /\ dataframe[j]["enter_long"] = NaN

\* ---------------------------------------------------------------- C8
QuotientColumns == {"volume_ratio", "bb_width", "bb_percent"}

\* the library output a quotient column is computed from
Feeds(col) ==
    CASE col = "volume_ratio" -> "volume_sma"
      [] col = "bb_width" -> "bb_upperband"
      [] col = "bb_percent" -> "bb_upperband"

\* column col lacks history on row i.  (bb_percent is also NaN, as 0/0, on a row
\* whose bands and close coincide: that row does not lack history.)
undefined(i, col) ==
    IF col \in QuotientColumns
    THEN IF Feeds(col) \in DOMAIN dataframe[i] THEN dataframe[i][Feeds(col)] = NaN
         ELSE i - 1 < LookbackBBANDS(20)
    ELSE dataframe[i][col] = NaN

\* the indicator columns read by the entry conjunction
EntryOperands ==
    CASE strategy = BB ->
            {"bb_upperband", "rsi", "volume_ratio", "adx", "macdhist", "ema_fast",
             "bb_percent"}
      [] strategy = EMA ->
            {"ema_fast", "ema_medium", "ema_slow", "rsi", "volume_ratio", "macdhist",
             "bb_width"}
      [] strategy = MACD ->
            {"macd", "macdsignal", "ema_short", "ema_medium", "ema_long",
             "volume_ratio", "rsi", "adx", "bb_percent", "stoch_k", "stoch_d",
             "macdhist"}
      [] strategy = RSIBB ->
            {"rsi", "bb_lowerband", "bb_percent", "volume_sma", "macd", "macdsignal",
             "macdhist", "adx", "bb_width"}

\* the exit conjunctions on row i: the indicator columns each reads, and its value
ExitConjunctions(i) ==
    CASE strategy = BB ->
            { [reads |-> {"bb_lowerband"}, holds |-> AllOf(Primary(i))],
              [reads |-> {"rsi", "bb_percent", "bb_upperband", "macd", "macdsignal",
                          "macdhist", "volume_ratio", "ema_fast"},
               holds |-> AllOf(AltSets(i)[1])] }
      [] strategy = EMA ->
            { [reads |-> {"ema_fast", "ema_medium"}, holds |-> AllOf(Primary(i))],
              [reads |-> {"rsi"}, holds |-> AltSets(i)[1][1]],
              [reads |-> {"macd", "macdsignal", "macdhist"}, holds |-> AltSets(i)[1][2]],
              [reads |-> {"ema_medium", "ema_slow"}, holds |-> AltSets(i)[1][3]] }
      [] strategy = MACD ->
            { [reads |-> {"macd", "macdsignal"}, holds |-> AllOf(Primary(i))],
              [reads |-> {"rsi", "bb_percent"}, holds |-> AllOf(AltSets(i)[1])],
              [reads |-> {"ema_short", "ema_medium"}, holds |-> AllOf(AltSets(i)[2])],
              [reads |-> {"stoch_k", "stoch_d"}, holds |-> AllOf(AltSets(i)[3])] }
      [] strategy = RSIBB ->
            { [reads |-> {"rsi", "bb_upperband", "bb_percent"}, holds |-> AllOf(Primary(i))],
              [reads |-> {"macd", "macdsignal", "macdhist"}, holds |-> AllOf(AltSets(i)[1])] }

\* every indicator column the signal stages read
Indicators == EntryOperands \cup UNION {c.reads : c \in ExitConjunctions(1)}

\* C8: for lack of history an indicator operand is undefined, and then the
\* conjunction reading it is false: enter_long is never set on a row with an
\* undefined entry operand, an exit conjunction with an undefined operand does
\* not hold, and a row whose indicators are all undefined gets neither flag.
C8_UndefinedOperandsGiveNoSignal ==
    call.fn = "populate_exit_trend" =>
        \A i \in Rows(dataframe) :
            /\ (\E col \in EntryOperands : undefined(i, col))
                   => dataframe[i]["enter_long"] # 1
            /\ \A c \in ExitConjunctions(i) :
                   (\E col \in c.reads : undefined(i, col)) => ~c.holds
            /\ (\A col \in Indicators : undefined(i, col))
                   => (dataframe[i]["enter_long"] # 1 /\ dataframe[i]["exit_long"] # 1)

\* a row where the one false entry predicate is the one with the undefined
\* operand (macdhist), and a first row with no indicator at all
C8_OnlyTheUndefinedOperandFails ==
    /\ call.fn = "populate_exit_trend"
    /\ strategy = EMA
    /\ Len(dataframe) > 0
    /\ \A col \in Indicators : undefined(1, col)
    /\ \E i \in Rows(dataframe) :
           /\ undefined(i, "macdhist")
           /\ \A col \in EntryOperands \ {"macdhist"} : ~undefined(i, col)
           /\ \A k \in DOMAIN EntryConditions(i) : k # 6 => EntryConditions(i)[k]
           /\ dataframe[i]["enter_long"] # 1

\* ---------------------------------------------------------------- C9
\* C9: in every strategy leverage returns 10.0 for every proposed_leverage and
\* max_leverage, also when max_leverage is below 10.
C9_LeverageIsTen == call.fn = "leverage" => call.ret = 10

\* a call with max_leverage below the returned multiplier
C9_LeverageAboveMaximum ==
    call.fn = "leverage" /\ call.max_leverage < 10 /\ call.ret = 10

\* ---------------------------------------------------------------- C10
\* C10: running populate_indicators, populate_entry_trend or populate_exit_trend a
\* second time on its own result leaves every column as the first run left it.
C10_StagesIdempotent == [][call'.again => dataframe' = dataframe]_vars

\* the exit stage has run twice on a table that carries both flags
C10_SecondRunOnFlaggedTable ==
    /\ call.again
    /\ call.fn = "populate_exit_trend"
    /\ FlagSet("enter_long")
    /\ FlagSet("exit_long")

\* ---------------------------------------------------------------- C11
\* the table holds 40 rows, the closes rising strictly for 20 bars and then
\* falling strictly, and is analyzed with ema_fast = 5 and ema_medium = 10
OnRamp ==
    /\ strategy = EMA
    /\ call.fn = "populate_indicators"
    /\ params.ema_fast = 5 /\ params.ema_medium = 10
    /\ Len(dataframe) = 2 * RampRows
    /\ \A i \in 2 .. RampRows : dataframe[i]["close"] > dataframe[i - 1]["close"]
    /\ \A i \in (RampRows + 1) .. (2 * RampRows) :
           dataframe[i]["close"] < dataframe[i - 1]["close"]

FlagRows(col) == {i \in Rows(dataframe) : dataframe[i][col]}

\* the step of the falling half of the ramp
FallStep == dataframe[RampRows + 1]["close"] - dataframe[RampRows + 2]["close"]
RiseStep == dataframe[2]["close"] - dataframe[1]["close"]

\* C11 (as stated): on a 40-row series rising strictly for 20 bars and falling
\* strictly for 20 bars, with ema_fast = 5 and ema_medium = 10, populate_indicators
\* gives exactly one row with ema_cross_up, exactly one with ema_cross_down, and
\* no flag inside the strictly monotonic segments.
C11_OneCrossUpOneCrossDown ==
    OnRamp =>
        /\ Cardinality(FlagRows("ema_cross_up")) = 1
        /\ Cardinality(FlagRows("ema_cross_down")) = 1

\* C11 (amended): on such a series, rising and falling by constant steps,
\* ema_cross_up is true on no row (the fast average is above the medium one from
\* the first row where both are defined); ema_cross_down is true on at most one
\* row, a row of the falling segment, and on exactly one when the fall is at
\* least half as steep as the rise.
C11_NoCrossUpOneCrossDownInTheFall ==
    OnRamp =>
        /\ FlagRows("ema_cross_up") = {}
        /\ Cardinality(FlagRows("ema_cross_down")) <= 1
        /\ \A i \in FlagRows("ema_cross_down") : i > RampRows
        /\ 2 * FallStep >= RiseStep => Cardinality(FlagRows("ema_cross_down")) = 1

\* a symmetric ramp: the only flag is ema_cross_down, a few rows after the peak
C11_CrossDownAfterThePeak ==
    /\ OnRamp
    /\ FallStep = RiseStep
    /\ FlagRows("ema_cross_up") = {}
    /\ \E i \in (RampRows + 1) .. (2 * RampRows) : FlagRows("ema_cross_down") = {i}

\* ---------------------------------------------------------------- C12
\* C12: custom_exit returns None if and only if none of the strategy's escape
\* conditions holds for the given profit, holding time and last row, and a
\* non-empty label whenever one holds; macd_histogram_declining holds exactly
\* when the table has 3 rows or more, macdhist falls strictly over the last
\* three rows and profit > 0.05.
C12_NoneIffNoEscapeCondition ==
    (call.fn = "custom_exit" /\ Len(dataframe) > 0) =>
        IF \E k \in DOMAIN ExitChecks : ExitChecks[k].holds
        THEN call.kind = "str" /\ call.ret \in {ExitChecks[k].label : k \in DOMAIN ExitChecks}
        ELSE call.kind = "None"

\* ---------------------------------------------------------------- C13
\* the step is a signal stage, and outside the columns in written every row
\* keeps its columns and their values, and gains none
WritesOnly(fn, written) ==
    call'.fn = fn =>
        /\ Len(dataframe') = Len(dataframe)
        /\ \A i \in Rows(dataframe) :
              /\ DOMAIN dataframe[i] \subseteq DOMAIN dataframe'[i]
              /\ DOMAIN dataframe'[i] \subseteq DOMAIN dataframe[i] \cup written
              /\ \A col \in DOMAIN dataframe[i] \ written :
                    dataframe'[i][col] = dataframe[i][col]

\* C13 (as stated): populate_entry_trend writes only enter_long and
\* populate_exit_trend only exit_long; every other column is left unchanged and
\* no further column is added, in all four strategies.
C13_SignalStageWritesOneColumn ==
    [][/\ WritesOnly("populate_entry_trend", {"enter_long"})
       /\ WritesOnly("populate_exit_trend", {"exit_long"})]_vars

\* C13 (amended): populate_exit_trend writes only exit_long in all four strategies;
\* populate_entry_trend writes only enter_long in EMAScalpingStrategy,
\* MACDEMAStrategy and RSIBBStrategy, and enter_long and recent_squeeze in
\* BollingerSqueezeScalpStrategy; every other column is left unchanged.
C13_SignalStageWritesItsColumnAndRecentSqueeze ==
    [][/\ WritesOnly("populate_entry_trend",
                     IF strategy = BB THEN {"enter_long", "recent_squeeze"}
                     ELSE {"enter_long"})
       /\ WritesOnly("populate_exit_trend", {"exit_long"})
       /\ (call'.fn = "populate_entry_trend" /\ ~call'.again) =>
             \A i \in Rows(dataframe') :
                 ("recent_squeeze" \in DOMAIN dataframe'[i]) <=> (strategy = BB)]_vars

\* the entry stage of BollingerSqueezeScalpStrategy has added recent_squeeze, true
\* on some row, next to enter_long
C13_RecentSqueezeAdded ==
    /\ strategy = BB
    /\ call.fn = "populate_entry_trend"
    /\ ~call.again
    /\ \E i \in Rows(dataframe) :
          /\ {"recent_squeeze", "enter_long"} \subseteq DOMAIN dataframe[i]
          /\ dataframe[i]["recent_squeeze"]

\* ---------------------------------------------------------------- C14
\* the returned stop is the larger of the ATR stop of the given ATR and the floor
StopTakenFrom(atr) ==
    LET t == StoplossTerms
        dyn_n == -(t.mult10 * atr)
        dyn_d == 10 * call.current_rate
        r == call.ret
    IN  /\ r.d > 0
        /\ IF dyn_n * 1000 > t.floor * dyn_d
           THEN r.n * dyn_d = dyn_n * r.d
           ELSE r.n * 1000 = t.floor * r.d

\* custom_stoploss has returned a number on a table of two rows or more whose
\* final row is still in progress and carries an ATR
StopOnOpenCandle ==
    /\ call.fn = "custom_stoploss" /\ call.kind = "float"
    /\ call.in_progress
    /\ Len(dataframe) >= 2
    /\ Last["atr"] # NaN
    /\ dataframe[Len(dataframe) - 1]["atr"] # NaN

\* C14 (as stated): when the table ends with a row that is still in progress,
\* the ATR used by custom_stoploss is that of the last closed row, not of the
\* final row.
C14_StopFromLastClosedCandle ==
    StopOnOpenCandle => StopTakenFrom(dataframe[Len(dataframe) - 1]["atr"])

\* C14 (amended): custom_stoploss reads the final row of the table on every
\* invocation, whether or not that row is still in progress: the ATR used is
\* that of the final row, also where the last closed row would give another stop.
C14_StopFromFinalRow ==
    (call.fn = "custom_stoploss" /\ call.kind = "float"
        /\ Len(dataframe) >= 2 /\ Last["atr"] # NaN) =>
        StopTakenFrom(Last["atr"])

\* an in-progress final row whose ATR gives the returned stop while the ATR of
\* the last closed row would give another one
C14_OpenCandleDecidesTheStop ==
    /\ StopOnOpenCandle
    /\ StopTakenFrom(Last["atr"])
    /\ ~StopTakenFrom(dataframe[Len(dataframe) - 1]["atr"])

\* ---------------------------------------------------------------- C15
Callbacks == {"custom_stoploss", "custom_exit", "leverage", "confirm_trade_entry"}

\* what the callback named in c returns for the inputs recorded in c on table df
Returned(c, df) ==
    CASE c.fn = "custom_stoploss" -> custom_stoploss(strategy, df, c.current_rate)
      [] c.fn = "custom_exit" ->
            custom_exit(strategy, df, c.current_profit, c.held, c.aware)
      [] c.fn = "leverage" ->
            [kind |-> "float",
             ret |-> leverage(strategy, c.proposed_leverage, c.max_leverage)]
      [] c.fn = "confirm_trade_entry" ->
            [kind |-> "bool", ret |-> confirm_trade_entry(strategy)]

\* C15: custom_stoploss, custom_exit, leverage and confirm_trade_entry are
\* read-only and stateless: an invocation leaves the candle table, the analyzed
\* table and the parameters as they were, and what it returns is determined by
\* its inputs alone, so that invoking it again on the table it left returns the
\* same.
C15_CallbacksReadOnlyAndStateless ==
    [][call'.fn \in Callbacks =>
          /\ <<strategy, params, candles, dataframe, stage>>'
                = <<strategy, params, candles, dataframe, stage>>
          /\ call'.kind = Returned(call', dataframe).kind
          /\ call'.ret = Returned(call', dataframe).ret
          /\ call'.kind = Returned(call', dataframe').kind
          /\ call'.ret = Returned(call', dataframe').ret]_vars

\* a callback has returned a number computed from a table that still carries
\* its indicator columns and both signal columns
C15_CallbackOnUntouchedTable ==
    /\ call.fn = "custom_stoploss" /\ call.kind = "float"
    /\ Len(dataframe) > 0
    /\ {"atr", "enter_long", "exit_long"} \subseteq DOMAIN Last
    /\ Last["atr"] # NaN
    /\ FlagSet("exit_long")

BothSignals ==
    {i \in Rows(dataframe) : dataframe[i]["enter_long"] = 1 /\ dataframe[i]["exit_long"] = 1}

\* both signal stages have run on the table
Signalled == stage \in {"exit", "analyzed"}

\* C17: in MACDEMAStrategy and RSIBBStrategy, for every table and every parameter
\* assignment within the declared ranges, after populate_entry_trend and
\* populate_exit_trend no row has both enter_long and exit_long set: on a row
\* where every entry predicate holds, the main exit and every alternative exit
\* set has a false predicate.
C17_EntryAndExitExcludeEachOther ==
    (strategy \in {MACD, RSIBB} /\ Signalled) =>
        /\ BothSignals = {}
        /\ call.fn = "populate_exit_trend" =>
              \A i \in Rows(dataframe) :
                  AllOf(EntryConditions(i)) =>
                      /\ ~AllOf(Primary(i))
                      /\ \A k \in DOMAIN AltSets(i) : ~AllOf(AltSets(i)[k])

\* a table of MACDEMAStrategy or RSIBBStrategy with an entry row and an exit row
C17_EntryRowAndExitRow ==
    /\ strategy \in {MACD, RSIBB}
    /\ call.fn = "populate_exit_trend"
    /\ FlagSet("enter_long")
    /\ FlagSet("exit_long")
    /\ params.rsi_period # 14

\* the histogram column is the difference of the MACD line and its signal line
HistogramIsDifference ==
    \A i \in Rows(dataframe) :
        \/ dataframe[i]["macdhist"] = NaN
        \/ dataframe[i]["macdhist"] = dataframe[i]["macd"] - dataframe[i]["macdsignal"]

\* C18: in EMAScalpingStrategy, whenever rsi_buy_max <= rsi_sell_threshold and
\* macdhist = macd - macdsignal, no row has both enter_long and exit_long set
\* after populate_entry_trend and populate_exit_trend; where rsi_buy_max >
\* rsi_sell_threshold (75 and 70) the exclusion is not guaranteed: a row can
\* carry both (C18_BothSignalsWhenRangesOverlap).
C18_ExclusionWhenBuyMaxBelowSellThreshold ==
    (strategy = EMA /\ Signalled /\ params.rsi_buy_max <= params.rsi_sell_threshold
        /\ HistogramIsDifference) =>
        BothSignals = {}

\* with rsi_buy_max = 75 and rsi_sell_threshold = 70 a row with an RSI between
\* them carries both signals
C18_BothSignalsWhenRangesOverlap ==
    /\ strategy = EMA /\ Signalled
    /\ params.rsi_buy_max = 75 /\ params.rsi_sell_threshold = 70
    /\ HistogramIsDifference
    /\ \E i \in BothSignals :
          /\ dataframe[i]["rsi"] > params.rsi_sell_threshold
          /\ dataframe[i]["rsi"] <= params.rsi_buy_max

\* ---------------------------------------------------------------- C19
\* the pairs of an upward and a downward flag computed by populate_indicators
FlagPairs ==
    CASE strategy = BB -> {<<"bb_break_up", "bb_break_down">>}
      [] strategy = EMA -> {<<"ema_cross_up", "ema_cross_down">>, <<"uptrend", "downtrend">>}
      [] strategy = MACD ->
            {<<"macd_cross_above", "macd_cross_below">>, <<"uptrend", "downtrend">>}
      [] strategy = RSIBB -> {}

\* C19: on every row of every table the upward and the downward flag of a pair
\* are never both true: ema_cross_up and ema_cross_down, macd_cross_above and
\* macd_cross_below, bb_break_up and bb_break_down (bb_upperband >= bb_lowerband),
\* uptrend and downtrend in EMAScalpingStrategy and MACDEMAStrategy.
C19_UpAndDownFlagsExcludeEachOther ==
    call.fn = "populate_indicators" =>
        \A pair \in FlagPairs, i \in Rows(dataframe) :
            ~(dataframe[i][pair[1]] /\ dataframe[i][pair[2]])

\* a table where the upward flag of a pair is true on one row and the downward
\* flag of the same pair on the next
C19_UpThenDown ==
    /\ call.fn = "populate_indicators"
    /\ \E pair \in FlagPairs, i \in Rows(dataframe) :
          /\ i > 1
          /\ dataframe[i - 1][pair[1]]
          /\ dataframe[i][pair[2]]
          /\ ~dataframe[i][pair[1]]

\* ---------------------------------------------------------------- C20
\* the periods of the parameter assignment lie within their declared ranges
WithinRanges ==
    CASE strategy = EMA ->
            \A k \in DOMAIN EMA_period_ranges : params[k] \in EMA_period_ranges[k]
      [] strategy = MACD ->
            \A k \in DOMAIN MACD_period_ranges : params[k] \in MACD_period_ranges[k]
      [] OTHER -> FALSE

\* C20: for every parameter assignment within the declared ranges the periods are
\* strictly ordered: ema_fast < ema_medium < ema_slow in EMAScalpingStrategy,
\* ema_short < ema_medium < ema_long and macd_fast < macd_slow in MACDEMAStrategy.
C20_PeriodsStrictlyOrdered ==
    WithinRanges =>
        IF strategy = EMA
        THEN params.ema_fast < params.ema_medium /\ params.ema_medium < params.ema_slow
        ELSE /\ params.ema_short < params.ema_medium
             /\ params.ema_medium < params.ema_long
             /\ params.macd_fast < params.macd_slow

====
